---------------------------- MODULE Spec2Model ----------------------------
(***************************************************************************)
(* Model of the SCANNER document-scanning backend (backend/app):           *)
(*   pipelines/base.py, pipelines/passport.py, pipelines/emirates_id.py,   *)
(*   utils/validation.py, utils/normalization.py and the two scan          *)
(*   endpoints of api/v1/endpoints.                                        *)
(*                                                                         *)
(* Python strings are modelled as sequences of one-character strings, so   *)
(* that indexing, slicing, int() and formatting are computed as the code   *)
(* computes them.  None is the value NoneVal.                              *)
(***************************************************************************)
EXTENDS Integers, Sequences, FiniteSets, TLC

VARIABLES
    args,       \* pure-function harness: the call being made (function name, inputs)
    ret,        \* pure-function harness: its return value (Pending before the call)
    pipeline,   \* per endpoint module: _pipeline, as the id of the list its
                \* self.warnings refers to (0 while _pipeline is None)
    heap,       \* the list objects created so far: heap[id] is the list's content
    req         \* per scan request: the handler's position and local variables

vars == <<args, ret, pipeline, heap, req>>

fnVars == <<args, ret>>

scanVars == <<pipeline, heap, req>>

(***************************************************************************)
(* Python values                                                           *)
(***************************************************************************)
\* None, as a value comparable with the modelled strings (no string has a
\* character of more than one letter).
NoneVal == <<"None">>

\* The harness's ret before the call returns.
Pending == [raised |-> "pending", value |-> FALSE]

\* Python truthiness of a str-or-None value: None and "" are falsy.
Truthy(v) == v # NoneVal /\ v # <<>>

DigitChars == <<"0", "1", "2", "3", "4", "5", "6", "7", "8", "9">>

IsDigit(c) == \E i \in 1..10 : DigitChars[i] = c

DigitVal(c) == (CHOOSE i \in 1..10 : DigitChars[i] = c) - 1

DigitChar(d) == DigitChars[d + 1]

\* Whitespace characters of the modelled alphabet (str.strip(), int(), \s).
IsSpace(c) == c = " "

RECURSIVE LStrip(_)
LStrip(s) == IF s # <<>> /\ IsSpace(Head(s)) THEN LStrip(Tail(s)) ELSE s

RECURSIVE RStrip(_)
RStrip(s) ==
    IF s # <<>> /\ IsSpace(s[Len(s)]) THEN RStrip(SubSeq(s, 1, Len(s) - 1)) ELSE s

\* str.strip()
Strip(s) == RStrip(LStrip(s))

\* Python slice s[a:b] (0-based, end exclusive, clipped to the string).
Slice(s, a, b) ==
    LET lo == IF a < 0 THEN 0 ELSE a
        hi == IF b > Len(s) THEN Len(s) ELSE b
    IN  IF lo >= hi THEN <<>> ELSE SubSeq(s, lo + 1, hi)

\* The decimal digits of a non-negative integer, most significant first.
RECURSIVE NatDigits(_)
NatDigits(n) ==
    IF n < 10 THEN <<DigitChar(n)>> ELSE NatDigits(n \div 10) \o <<DigitChar(n % 10)>>

RECURSIVE ZeroPad(_, _)
ZeroPad(s, width) == IF Len(s) >= width THEN s ELSE ZeroPad(<<"0">> \o s, width)

\* f"{n:0<width>d}": zero padding to the width, the sign counted in the width.
FormatD(n, width) ==
    IF n >= 0 THEN ZeroPad(NatDigits(n), width)
    ELSE <<"-">> \o ZeroPad(NatDigits(0 - n), width - 1)

\* The value of a sequence of decimal digits and underscores (underscores skipped).
RECURSIVE DigitsValue(_)
DigitsValue(s) ==
    IF s = <<>> THEN 0
    ELSE IF s[Len(s)] = "_" THEN DigitsValue(SubSeq(s, 1, Len(s) - 1))
    ELSE DigitsValue(SubSeq(s, 1, Len(s) - 1)) * 10 + DigitVal(s[Len(s)])

\* int(s) for a str: surrounding whitespace stripped, an optional sign, then
\* decimal digits with single underscores allowed between digits; anything
\* else raises ValueError (IntRaises).
IntBody(s) ==
    LET t == Strip(s)
    IN  IF t # <<>> /\ Head(t) \in {"+", "-"} THEN Tail(t) ELSE t

IntRaises(s) ==
    LET body == IntBody(s)
    IN  ~ /\ body # <<>>
          /\ IsDigit(body[1])
          /\ IsDigit(body[Len(body)])
          /\ \A i \in 1..Len(body) : IsDigit(body[i]) \/ body[i] = "_"
          /\ \A i \in 1..(Len(body) - 1) : ~(body[i] = "_" /\ body[i + 1] = "_")

\* The value of int(s) when it does not raise.
PyInt(s) ==
    LET t == Strip(s)
    IN  IF t # <<>> /\ Head(t) = "-" THEN 0 - DigitsValue(IntBody(s))
        ELSE DigitsValue(IntBody(s))

(***************************************************************************)
(* utils/validation.py: validate_mrz_checksum                              *)
(***************************************************************************)
weights == <<7, 3, 1>>

char_values ==
    <<"0", "1", "2", "3", "4", "5", "6", "7", "8", "9",
      "A", "B", "C", "D", "E", "F", "G", "H", "I", "J", "K", "L", "M",
      "N", "O", "P", "Q", "R", "S", "T", "U", "V", "W", "X", "Y", "Z", "<">>

InCharValues(c) == \E i \in 1..Len(char_values) : char_values[i] = c

\* char_values.index(char): the 0-based position of the character.
CharIndex(c) == (CHOOSE i \in 1..Len(char_values) : char_values[i] = c) - 1

\* The loop "for i, char in enumerate(data)": total after the first n characters.
RECURSIVE ChecksumTotal(_, _)
ChecksumTotal(data, n) ==
    IF n = 0 THEN 0
    ELSE ChecksumTotal(data, n - 1)
         + (IF InCharValues(data[n])
            THEN CharIndex(data[n]) * weights[((n - 1) % 3) + 1]
            ELSE 0)

calculated_check(data) == ChecksumTotal(data, Len(data)) % 10

\* enumerate(data) raises TypeError when data is None; the early return for a
\* missing or filler check digit comes first.
validate_mrz_checksum_raises(data, check_digit) ==
    /\ Truthy(check_digit)
    /\ check_digit # <<"<">>
    /\ data = NoneVal

\* The boolean returned when the call does not raise.
validate_mrz_checksum(data, check_digit) ==
    IF ~Truthy(check_digit) \/ check_digit = <<"<">> THEN TRUE
    ELSE IF IntRaises(check_digit) THEN FALSE
    ELSE calculated_check(data) = PyInt(check_digit)

(***************************************************************************)
(* pipelines/passport.py: PassportPipeline._parse_mrz_date                 *)
(***************************************************************************)
CenturyMutGE(year) == IF year >= 50 THEN 1900 + year ELSE 2000 + year

\* "if year > 50: full_year = 1900 + year else: full_year = 2000 + year"
Century(year) == IF year > 50 THEN 1900 + year ELSE 2000 + year

\* Returns the YYYY-MM-DD string or None.
parse_mrz_date(mrz_date) ==
    IF ~Truthy(mrz_date) \/ Len(mrz_date) # 6 THEN NoneVal
    ELSE LET year == PyInt(Slice(mrz_date, 0, 2))
             month == PyInt(Slice(mrz_date, 2, 4))
             day == PyInt(Slice(mrz_date, 4, 6))
         IN  IF \/ IntRaises(Slice(mrz_date, 0, 2))
                    \/ IntRaises(Slice(mrz_date, 2, 4))
                    \/ IntRaises(Slice(mrz_date, 4, 6))
             THEN NoneVal
             ELSE FormatD(Century(year), 4) \o <<"-">> \o FormatD(month, 2)
                  \o <<"-">> \o FormatD(day, 2)

(***************************************************************************)
(* str helpers used by utils/normalization.py and utils/validation.py      *)
(***************************************************************************)
UpperLetters ==
    <<"A", "B", "C", "D", "E", "F", "G", "H", "I", "J", "K", "L", "M",
      "N", "O", "P", "Q", "R", "S", "T", "U", "V", "W", "X", "Y", "Z">>

LowerLetters ==
    <<"a", "b", "c", "d", "e", "f", "g", "h", "i", "j", "k", "l", "m",
      "n", "o", "p", "q", "r", "s", "t", "u", "v", "w", "x", "y", "z">>

IsUpper(c) == \E i \in 1..26 : UpperLetters[i] = c

IsLower(c) == \E i \in 1..26 : LowerLetters[i] = c

\* A cased character (str.title() starts a new word after any uncased one).
IsCased(c) == IsUpper(c) \/ IsLower(c)

UpperChar(c) ==
    IF IsLower(c) THEN UpperLetters[CHOOSE i \in 1..26 : LowerLetters[i] = c] ELSE c

LowerChar(c) ==
    IF IsUpper(c) THEN LowerLetters[CHOOSE i \in 1..26 : UpperLetters[i] = c] ELSE c

\* str.upper() / str.lower()
Upper(s) == [i \in 1..Len(s) |-> UpperChar(s[i])]

Lower(s) == [i \in 1..Len(s) |-> LowerChar(s[i])]

\* str.replace(old, new) for a one-character old and a new of any length.
RECURSIVE Replace(_, _, _)
Replace(s, old, new) ==
    IF s = <<>> THEN <<>>
    ELSE (IF Head(s) = old THEN new ELSE <<Head(s)>>) \o Replace(Tail(s), old, new)

\* re.sub(r'[^0-9]', '', s)
RECURSIVE DigitsOnly(_)
DigitsOnly(s) ==
    IF s = <<>> THEN <<>>
    ELSE (IF IsDigit(Head(s)) THEN <<Head(s)>> ELSE <<>>) \o DigitsOnly(Tail(s))

\* re.sub(r'\s+', ' ', s): every run of whitespace becomes one space.
RECURSIVE CollapseSpaces(_)
CollapseSpaces(s) ==
    IF s = <<>> THEN <<>>
    ELSE IF IsSpace(Head(s))
         THEN <<" ">> \o CollapseSpaces(LStrip(s))
         ELSE <<Head(s)>> \o CollapseSpaces(Tail(s))

\* str.title(): a cased character is upper-cased when the character before it
\* is not cased (or there is none) and lower-cased otherwise.
Title(s) ==
    [i \in 1..Len(s) |->
        IF i > 1 /\ IsCased(s[i - 1]) THEN LowerChar(s[i]) ELSE UpperChar(s[i])]

\* str.split(sep) for a one-character separator.
RECURSIVE SplitOn(_, _)
SplitOn(s, sep) ==
    IF \A i \in 1..Len(s) : s[i] # sep THEN <<s>>
    ELSE LET k == CHOOSE i \in 1..Len(s) :
                      s[i] = sep /\ \A j \in 1..(i - 1) : s[j] # sep
         IN  <<SubSeq(s, 1, k - 1)>> \o SplitOn(SubSeq(s, k + 1, Len(s)), sep)

(***************************************************************************)
(* utils/normalization.py                                                  *)
(***************************************************************************)
normalize_text(text) ==
    IF ~Truthy(text) THEN <<>> ELSE CollapseSpaces(Strip(text))

normalize_name(name) ==
    IF ~Truthy(name) THEN <<>> ELSE Title(normalize_text(name))

normalize_emirates_idMutNoLetterFix(id_number) ==
    IF ~Truthy(id_number) THEN <<>>
    ELSE LET c1 == Replace(Replace(id_number, "O", <<"0">>), "o", <<"0">>)
             cleaned == Replace(Replace(c1, " ", <<>>), "_", <<"-">>)
             digits_only == DigitsOnly(cleaned)
         IN  IF Len(digits_only) = 15
             THEN Slice(digits_only, 0, 3) \o <<"-">> \o Slice(digits_only, 3, 7)
                  \o <<"-">> \o Slice(digits_only, 7, 14) \o <<"-">>
                  \o <<digits_only[15]>>
             ELSE cleaned

normalize_emirates_id(id_number) ==
    IF ~Truthy(id_number) THEN <<>>
    ELSE LET c1 == Replace(Replace(id_number, "O", <<"0">>), "o", <<"0">>)
             c2 == Replace(Replace(c1, "I", <<"1">>), "l", <<"1">>)
             cleaned == Replace(Replace(c2, " ", <<>>), "_", <<"-">>)
             digits_only == DigitsOnly(cleaned)
         IN  IF Len(digits_only) = 15
             THEN Slice(digits_only, 0, 3) \o <<"-">> \o Slice(digits_only, 3, 7)
                  \o <<"-">> \o Slice(digits_only, 7, 14) \o <<"-">>
                  \o <<digits_only[15]>>
             ELSE cleaned

normalize_sexMutNoUpper(sex) ==
    IF ~Truthy(sex) THEN <<>>
    ELSE LET normalized == Strip(sex)
         IN  IF normalized \in {<<"M">>, <<"M", "A", "L", "E">>, <<"M", "A", "N">>}
             THEN <<"M">>
             ELSE IF normalized \in {<<"F">>, <<"F", "E", "M", "A", "L", "E">>,
                                     <<"W", "O", "M", "A", "N">>}
             THEN <<"F">>
             ELSE IF normalized # <<>> THEN <<normalized[1]>> ELSE <<>>

normalize_sex(sex) ==
    IF ~Truthy(sex) THEN <<>>
    ELSE LET normalized == Upper(Strip(sex))
         IN  IF normalized \in {<<"M">>, <<"M", "A", "L", "E">>, <<"M", "A", "N">>}
             THEN <<"M">>
             ELSE IF normalized \in {<<"F">>, <<"F", "E", "M", "A", "L", "E">>,
                                     <<"W", "O", "M", "A", "N">>}
             THEN <<"F">>
             ELSE IF normalized # <<>> THEN <<normalized[1]>> ELSE <<>>

\* The table country_codes: name -> 3-letter code.
country_codes ==
    << <<<<"U","N","I","T","E","D"," ","A","R","A","B"," ","E","M","I","R","A","T","E","S">>,
         <<"A","R","E">>>>,
       <<<<"U","A","E">>, <<"A","R","E">>>>,
       <<<<"I","N","D","I","A">>, <<"I","N","D">>>>,
       <<<<"P","A","K","I","S","T","A","N">>, <<"P","A","K">>>>,
       <<<<"B","A","N","G","L","A","D","E","S","H">>, <<"B","G","D">>>>,
       <<<<"P","H","I","L","I","P","P","I","N","E","S">>, <<"P","H","L">>>>,
       <<<<"E","G","Y","P","T">>, <<"E","G","Y">>>> >>

normalize_nationality(nationality) ==
    IF ~Truthy(nationality) THEN <<>>
    ELSE LET normalized == Upper(Strip(nationality))
         IN  IF \E i \in 1..Len(country_codes) : country_codes[i][1] = normalized
             THEN country_codes[CHOOSE i \in 1..Len(country_codes) :
                                    country_codes[i][1] = normalized][2]
             ELSE normalized

(***************************************************************************)
(* datetime.strptime / strftime as normalize_date and                      *)
(* validate_date_consistency use them.  A parsed date is <<year, month,    *)
(* day>>; <<>> stands for ValueError.                                      *)
(***************************************************************************)
\* %d: 3[0-1] | [1-2]\d | 0[1-9] | [1-9] | " "[1-9]
DayToken(t) ==
    \/ Len(t) = 1 /\ IsDigit(t[1]) /\ t[1] # "0"
    \/ /\ Len(t) = 2
       /\ \/ t[1] = "3" /\ t[2] \in {"0", "1"}
          \/ t[1] \in {"1", "2"} /\ IsDigit(t[2])
          \/ t[1] \in {"0", " "} /\ IsDigit(t[2]) /\ t[2] # "0"

\* %m: 1[0-2] | 0[1-9] | [1-9]
MonthToken(t) ==
    \/ Len(t) = 1 /\ IsDigit(t[1]) /\ t[1] # "0"
    \/ /\ Len(t) = 2
       /\ \/ t[1] = "1" /\ t[2] \in {"0", "1", "2"}
          \/ t[1] = "0" /\ IsDigit(t[2]) /\ t[2] # "0"

\* %Y: \d\d\d\d
YearToken(t) == Len(t) = 4 /\ \A i \in 1..4 : IsDigit(t[i])

\* %B: the full month names (matched without regard to case).
month_names ==
    << <<"j", "a", "n", "u", "a", "r", "y">>,
       <<"f", "e", "b", "r", "u", "a", "r", "y">>,
       <<"m", "a", "r", "c", "h">>,
       <<"a", "p", "r", "i", "l">>,
       <<"m", "a", "y">>,
       <<"j", "u", "n", "e">>,
       <<"j", "u", "l", "y">>,
       <<"a", "u", "g", "u", "s", "t">>,
       <<"s", "e", "p", "t", "e", "m", "b", "e", "r">>,
       <<"o", "c", "t", "o", "b", "e", "r">>,
       <<"n", "o", "v", "e", "m", "b", "e", "r">>,
       <<"d", "e", "c", "e", "m", "b", "e", "r">> >>

\* %b is the first three letters of the name, %B the whole name.
MonthNameToken(t, full) ==
    \E i \in 1..12 :
        Lower(t) = (IF full THEN month_names[i] ELSE SubSeq(month_names[i], 1, 3))

MonthOfName(t, full) ==
    CHOOSE i \in 1..12 :
        Lower(t) = (IF full THEN month_names[i] ELSE SubSeq(month_names[i], 1, 3))

IsLeap(y) == (y % 4 = 0 /\ y % 100 # 0) \/ y % 400 = 0

DaysInMonth(y, m) ==
    IF m = 2 THEN (IF IsLeap(y) THEN 29 ELSE 28)
    ELSE IF m \in {4, 6, 9, 11} THEN 30 ELSE 31

\* datetime(y, m, d): ValueError for year 0 or a day the month does not have.
MakeDate(y, m, d) == IF y >= 1 /\ d <= DaysInMonth(y, m) THEN <<y, m, d>> ELSE <<>>

\* strptime with "%d<sep>%m<sep>%Y".
StrptimeDMY(str, sep) ==
    LET t == SplitOn(str, sep)
    IN  IF Len(t) = 3 /\ DayToken(t[1]) /\ MonthToken(t[2]) /\ YearToken(t[3])
        THEN MakeDate(PyInt(t[3]), PyInt(t[2]), PyInt(t[1]))
        ELSE <<>>

\* strptime with "%Y-%m-%d".
StrptimeISO(str) ==
    LET t == SplitOn(str, "-")
    IN  IF Len(t) = 3 /\ YearToken(t[1]) /\ MonthToken(t[2]) /\ DayToken(t[3])
        THEN MakeDate(PyInt(t[1]), PyInt(t[2]), PyInt(t[3]))
        ELSE <<>>

\* strptime with "%d %b %Y" (full = FALSE) or "%d %B %Y" (full = TRUE); a
\* space of the format matches any run of whitespace.
StrptimeDayMonthNameYear(str, full) ==
    LET t == SplitOn(CollapseSpaces(str), " ")
    IN  IF /\ Len(t) = 3
           /\ DayToken(t[1])
           /\ MonthNameToken(t[2], full)
           /\ YearToken(t[3])
        THEN MakeDate(PyInt(t[3]), MonthOfName(t[2], full), PyInt(t[1]))
        ELSE <<>>

\* DATE_INPUT_FORMATS, in order.
Strptime(str, fmt) ==
    CASE fmt = 1 -> StrptimeDMY(str, "/")
      [] fmt = 2 -> StrptimeDMY(str, "-")
      [] fmt = 3 -> StrptimeDMY(str, ".")
      [] fmt = 4 -> StrptimeISO(str)
      [] fmt = 5 -> StrptimeDayMonthNameYear(str, FALSE)
      [] fmt = 6 -> StrptimeDayMonthNameYear(str, TRUE)

\* strftime("%Y-%m-%d"); the C library's %Y does not pad a year below 1000.
Strftime(dt) ==
    NatDigits(dt[1]) \o <<"-">> \o FormatD(dt[2], 2) \o <<"-">> \o FormatD(dt[3], 2)

\* Returns the normalized string or None.
normalize_date(date_str) ==
    IF ~Truthy(date_str) THEN NoneVal
    ELSE LET cleaned == Replace(Replace(Strip(date_str), "O", <<"0">>), "o", <<"0">>)
         IN  IF \E fmt \in 1..6 : Strptime(cleaned, fmt) # <<>>
             THEN Strftime(Strptime(cleaned,
                      CHOOSE fmt \in 1..6 :
                          /\ Strptime(cleaned, fmt) # <<>>
                          /\ \A g \in 1..(fmt - 1) : Strptime(cleaned, g) = <<>>))
             ELSE NoneVal

(***************************************************************************)
(* utils/validation.py.  A validator's (is_valid, error) pair is modelled  *)
(* by its error: NoError when is_valid, otherwise the message: detail is    *)
(* its fixed text, text and text2 the values interpolated into it.  A     *)
(* pipeline warning is the same record with kind set to its prefix.       *)
(***************************************************************************)
Message(kind, detail, text, text2, num) ==
    [kind |-> kind, detail |-> detail, text |-> text, text2 |-> text2, num |-> num]

NoError == Message("", "", <<>>, <<>>, 0)

validate_emirates_id_numberMutAnyPrefix(id_number) ==
    IF ~Truthy(id_number) THEN Message("", "ID number is empty", <<>>, <<>>, 0)
    ELSE LET clean_id == Replace(Strip(id_number), " ", <<>>)
             matches ==
                 /\ Len(clean_id) = 18
                 /\ \A i \in {4, 9, 17} : clean_id[i] = "-"
                 /\ \A i \in (1..3) \cup (5..8) \cup (10..16) \cup {18} :
                        IsDigit(clean_id[i])
         IN  IF matches THEN NoError
             ELSE Message("", "Invalid Emirates ID format. Expected: 784-YYYY-NNNNNNN-C, got",
                          id_number, <<>>, 0)

validate_emirates_id_number(id_number) ==
    IF ~Truthy(id_number) THEN Message("", "ID number is empty", <<>>, <<>>, 0)
    ELSE LET clean_id == Replace(Strip(id_number), " ", <<>>)
             \* ^784-\d{4}-\d{7}-\d{1}$
             matches ==
                 /\ Len(clean_id) = 18
                 /\ SubSeq(clean_id, 1, 3) = <<"7", "8", "4">>
                 /\ \A i \in {4, 9, 17} : clean_id[i] = "-"
                 /\ \A i \in (5..8) \cup (10..16) \cup {18} : IsDigit(clean_id[i])
         IN  IF matches THEN NoError
             ELSE Message("", "Invalid Emirates ID format. Expected: 784-YYYY-NNNNNNN-C, got",
                          id_number, <<>>, 0)

DateBeforeMutLE(a, b) ==
    \/ a[1] < b[1]
    \/ a[1] = b[1] /\ a[2] < b[2]
    \/ a[1] = b[1] /\ a[2] = b[2] /\ a[3] <= b[3]

DateBefore(a, b) ==
    \/ a[1] < b[1]
    \/ a[1] = b[1] /\ a[2] < b[2]
    \/ a[1] = b[1] /\ a[2] = b[2] /\ a[3] < b[3]

validate_date_consistency(issue_date, expiry_date) ==
    IF ~Truthy(issue_date) \/ ~Truthy(expiry_date) THEN NoError
    ELSE LET issue == StrptimeISO(issue_date)
             expiry == StrptimeISO(expiry_date)
         IN  IF issue = <<>> \/ expiry = <<>>
             THEN Message("", "Invalid date format", <<>>, <<>>, 0)
             ELSE IF ~DateBefore(issue, expiry)
             THEN Message("", "Expiry date must be after issue date",
                          expiry_date, issue_date, 0)
             ELSE NoError

IsAlnum(c) == IsDigit(c) \/ IsUpper(c) \/ IsLower(c)

validate_passport_number(passport_number, country_code) ==
    IF ~Truthy(passport_number) THEN Message("", "Passport number is empty", <<>>, <<>>, 0)
    ELSE LET clean_number == Replace(Strip(passport_number), " ", <<>>)
         IN  \* ^[A-Z0-9]{6,9}$ with re.IGNORECASE
             IF /\ Len(clean_number) \in 6..9
                /\ \A i \in 1..Len(clean_number) : IsAlnum(clean_number[i])
             THEN NoError
             ELSE Message("", "Invalid passport number format", passport_number, <<>>, 0)

validate_sex(sex) ==
    IF Upper(Strip(sex)) \in {<<"M">>, <<"F">>, <<"M", "A", "L", "E">>,
                              <<"F", "E", "M", "A", "L", "E">>}
    THEN NoError
    ELSE Message("", "Invalid sex value", sex, <<>>, 0)

(***************************************************************************)
(* pipelines/base.py: field dictionaries and confidences                   *)
(*                                                                         *)
(* A confidence is a float in 0..1.  The pipelines produce either a        *)
(* literal or the square root of a quotient, so a confidence c is kept     *)
(* exactly as the fraction num/den with (1000*c)^2 = num/den; rounding     *)
(* and comparison are then exact integer arithmetic.                       *)
(***************************************************************************)
Conf(num, den) == [num |-> num, den |-> den]

\* The confidence whose value is th thousandths.
ExactConf(th) == Conf(th * th, 1)

ConfBelowMutLE(c, th) == c.num <= th * th * c.den

\* c < th thousandths
ConfBelow(c, th) == c.num < th * th * c.den

\* round(c, 3) in thousandths and f"{c:.2f}" in hundredths: the nearest
\* multiple k of unit thousandths, (k - 1/2)*unit <= 1000*c < (k + 1/2)*unit.
RoundConf(c, unit) ==
    CHOOSE k \in 0..(1000 \div unit) :
        /\ 4 * c.num < (2 * k + 1) * (2 * k + 1) * unit * unit * c.den
        /\ k = 0 \/ (2 * k - 1) * (2 * k - 1) * unit * unit * c.den <= 4 * c.num

\* round(coord, 2) of a coordinate held in thousandths, in hundredths
\* (round-half-even on the decimal value).
RoundCoord(coord) ==
    LET q == coord \div 10
        rem == coord % 10
    IN  IF rem > 5 \/ (rem = 5 /\ q % 2 = 1) THEN q + 1 ELSE q

\* A fields dict is the sequence of its entries in insertion order; an entry
\* carries its key as name.  bbox is <<>> when the dict has no "bbox" key.
create_field_dict(name, value, confidence, bbox) ==
    [name |-> name,
     value |-> value,
     confidence |-> RoundConf(confidence, 1),
     bbox |-> IF bbox # <<>> THEN [i \in 1..Len(bbox) |-> RoundCoord(bbox[i])]
              ELSE <<>>]

HasField(fields, name) == \E i \in 1..Len(fields) : fields[i].name = name

\* fields[name]['value']
FieldValue(fields, name) ==
    fields[CHOOSE i \in 1..Len(fields) : fields[i].name = name].value

\* fields.get(name, {}).get('value')
GetValue(fields, name) ==
    IF HasField(fields, name) THEN FieldValue(fields, name) ELSE NoneVal

Opt(cond, entry) == IF cond THEN <<entry>> ELSE <<>>

Warning(prefix, error) == [error EXCEPT !.kind = prefix]

(***************************************************************************)
(* pipelines/passport.py: the steps of process after the MRZ was read      *)
(***************************************************************************)
base_confidence == 950

\* The attributes of the MRZ object the pipeline reads; an attribute the
\* reader did not produce is None.
MrzAttributes ==
    {"mrz_type", "names", "number", "nationality", "date_of_birth", "sex",
     "expiration_date", "check_number", "check_date_of_birth",
     "check_expiration_date"}

NoMrz == [a \in MrzAttributes |-> NoneVal]

parse_mrz_fields(mrz_data) ==
    LET conf == ExactConf(base_confidence)
        dob == parse_mrz_date(mrz_data.date_of_birth)
        expiry == parse_mrz_date(mrz_data.expiration_date)
    IN  Opt(Truthy(mrz_data.names),
            create_field_dict("full_name",
                              Strip(Replace(mrz_data.names, "<", <<" ">>)), conf, <<>>))
        \o Opt(Truthy(mrz_data.number),
               create_field_dict("passport_number",
                                 Replace(mrz_data.number, "<", <<>>), conf, <<>>))
        \o Opt(Truthy(mrz_data.nationality),
               create_field_dict("nationality", mrz_data.nationality, conf, <<>>))
        \o Opt(Truthy(mrz_data.date_of_birth) /\ Truthy(dob),
               create_field_dict("date_of_birth", dob, conf, <<>>))
        \o Opt(Truthy(mrz_data.sex),
               create_field_dict("sex", mrz_data.sex, conf, <<>>))
        \o Opt(Truthy(mrz_data.expiration_date) /\ Truthy(expiry),
               create_field_dict("expiry_date", expiry, conf, <<>>))

\* if normalized: field['value'] = normalized
NormalizeEntry(entry, normalized) ==
    IF Truthy(entry.value) /\ Truthy(normalized)
    THEN [entry EXCEPT !.value = normalized]
    ELSE entry

passport_normalize_fields(fields) ==
    [i \in 1..Len(fields) |->
        IF fields[i].name = "full_name" /\ Truthy(fields[i].value)
        THEN NormalizeEntry(fields[i], normalize_name(fields[i].value))
        ELSE IF fields[i].name = "sex" /\ Truthy(fields[i].value)
        THEN NormalizeEntry(fields[i], normalize_sex(fields[i].value))
        ELSE fields[i]]

\* _validate_fields, first block: the warnings it adds (at most one).
passport_number_warnings(fields) ==
    IF HasField(fields, "passport_number") /\ Truthy(FieldValue(fields, "passport_number"))
    THEN LET error == validate_passport_number(FieldValue(fields, "passport_number"),
                                               GetValue(fields, "nationality"))
         IN  Opt(error # NoError, Warning("Passport number validation", error))
    ELSE <<>>

\* The three check-digit blocks of _validate_fields, in order: the data
\* attribute, its check-digit attribute and the warning of a failed check.
CheckDigitBlocks ==
    << [data |-> "number", check |-> "check_number",
        warning |-> "Passport number check digit validation failed"],
       [data |-> "date_of_birth", check |-> "check_date_of_birth",
        warning |-> "Date of birth check digit validation failed"],
       [data |-> "expiration_date", check |-> "check_expiration_date",
        warning |-> "Expiration date check digit validation failed"] >>

\* _validate_check_digit
validate_check_digit(data, check_digit) == validate_mrz_checksum(data, check_digit)

\* Block k raises (the TypeError of validate_mrz_checksum on absent data).
check_digit_block_raises(mrz_data, k) ==
    /\ Truthy(mrz_data[CheckDigitBlocks[k].check])
    /\ validate_mrz_checksum_raises(mrz_data[CheckDigitBlocks[k].data],
                                    mrz_data[CheckDigitBlocks[k].check])

\* The warnings block k adds when it does not raise.
check_digit_block_warnings(mrz_data, k) ==
    Opt(/\ Truthy(mrz_data[CheckDigitBlocks[k].check])
        /\ ~validate_check_digit(mrz_data[CheckDigitBlocks[k].data],
                                 mrz_data[CheckDigitBlocks[k].check]),
        Message(CheckDigitBlocks[k].warning, "", <<>>, <<>>, 0))

(***************************************************************************)
(* pipelines/emirates_id.py: the steps of process                          *)
(*                                                                         *)
(* A detector box is [name, bbox, confidence], confidence in thousandths   *)
(* and bbox coordinates in thousandths of a pixel; an OCR span is          *)
(* [top, text, confidence], top being the y of its first corner.           *)
(***************************************************************************)
MIN_DETECTION_CONFIDENCE == 300

MIN_OCR_CONFIDENCE == 500

StoreDetectionMutLatest(detections, box) ==
    IF ~HasField(detections, box.name) THEN Append(detections, box)
    ELSE LET i == CHOOSE j \in 1..Len(detections) : detections[j].name = box.name
         IN  IF box.confidence >= detections[i].confidence
             THEN [detections EXCEPT ![i] = box]
             ELSE detections

\* "if class_name not in detections or confidence > ...: detections[...] = ..."
\* A dict keeps the position of a key whose value is replaced.
StoreDetection(detections, box) ==
    IF ~HasField(detections, box.name) THEN Append(detections, box)
    ELSE LET i == CHOOSE j \in 1..Len(detections) : detections[j].name = box.name
         IN  IF box.confidence > detections[i].confidence
             THEN [detections EXCEPT ![i] = box]
             ELSE detections

\* _detect_fields after the first n boxes of the detector's result.
RECURSIVE detect_fields(_, _)
detect_fields(boxes, n) ==
    IF n = 0 THEN <<>>
    ELSE StoreDetection(detect_fields(boxes, n - 1), boxes[n])

\* "if not detections"
NoDetectionsMutNever(detections) == FALSE

NoDetections(detections) == detections = <<>>

InsertByTopMutUnstable(sorted, span) ==
    LET after == {i \in 1..Len(sorted) : sorted[i].top >= span.top}
        pos == IF after = {} THEN Len(sorted) + 1
               ELSE CHOOSE i \in after : \A j \in after : i <= j
    IN  SubSeq(sorted, 1, pos - 1) \o <<span>> \o SubSeq(sorted, pos, Len(sorted))

\* list.sort(key=top): stable, ascending.
RECURSIVE SortByTop(_)
InsertByTop(sorted, span) ==
    LET after == {i \in 1..Len(sorted) : sorted[i].top > span.top}
        pos == IF after = {} THEN Len(sorted) + 1
               ELSE CHOOSE i \in after : \A j \in after : i <= j
    IN  SubSeq(sorted, 1, pos - 1) \o <<span>> \o SubSeq(sorted, pos, Len(sorted))

SortByTop(spans) ==
    IF spans = <<>> THEN <<>>
    ELSE InsertByTop(SortByTop(SubSeq(spans, 1, Len(spans) - 1)), spans[Len(spans)])

\* ' '.join(texts)
RECURSIVE JoinTexts(_)
JoinTexts(spans) ==
    IF spans = <<>> THEN <<>>
    ELSE IF Len(spans) = 1 THEN spans[1].text
    ELSE spans[1].text \o <<" ">> \o JoinTexts(Tail(spans))

RECURSIVE SumConfidences(_)
SumConfidences(spans) ==
    IF spans = <<>> THEN 0 ELSE spans[1].confidence + SumConfidences(Tail(spans))

\* (detection_conf * (sum(confidences) / len(confidences))) ** 0.5
final_confidence(detection, ocr_results) ==
    Conf(detection.confidence * SumConfidences(ocr_results), Len(ocr_results))

extract_fieldMutCombined(detection, ocr_results) ==
    IF ocr_results # <<>>
    THEN create_field_dict(detection.name, JoinTexts(SortByTop(ocr_results)),
                           final_confidence(detection, ocr_results), detection.bbox)
    ELSE create_field_dict(detection.name, <<>>, ExactConf(detection.confidence),
                           detection.bbox)

\* One iteration of the loop of _extract_text_from_detections: the entry it
\* stores and the warnings it adds, for the spans the recognizer returned.
extract_field(detection, ocr_results) ==
    IF ocr_results # <<>>
    THEN create_field_dict(detection.name, JoinTexts(SortByTop(ocr_results)),
                           final_confidence(detection, ocr_results), detection.bbox)
    ELSE create_field_dict(detection.name, <<>>, ExactConf(0), detection.bbox)

extract_warnings(detection, ocr_results) ==
    IF ocr_results # <<>>
    THEN Opt(ConfBelow(final_confidence(detection, ocr_results), MIN_OCR_CONFIDENCE),
             Message("Low confidence", detection.name, <<>>, <<>>,
                     RoundConf(final_confidence(detection, ocr_results), 10)))
    ELSE <<Message("No text detected in field", detection.name, <<>>, <<>>, 0)>>

\* normalization_map[field_name](value)
normalization_map(name, value) ==
    CASE name = "id_number" -> normalize_emirates_id(value)
      [] name = "full_name" -> normalize_name(value)
      [] name \in {"date_of_birth", "issue_date", "expiry_date"} -> normalize_date(value)
      [] name = "nationality" -> normalize_nationality(value)
      [] name = "sex" -> normalize_sex(value)
      [] OTHER -> NoneVal

emirates_normalize_fields(fields) ==
    [i \in 1..Len(fields) |->
        IF Truthy(fields[i].value)
        THEN NormalizeEntry(fields[i], normalization_map(fields[i].name, fields[i].value))
        ELSE fields[i]]

emirates_validate_warningsMutSexFirst(fields) ==
    LET id_error == validate_emirates_id_number(GetValue(fields, "id_number"))
        issue_date == GetValue(fields, "issue_date")
        expiry_date == GetValue(fields, "expiry_date")
        date_error == validate_date_consistency(issue_date, expiry_date)
        sex_error == validate_sex(GetValue(fields, "sex"))
    IN  Opt(Truthy(GetValue(fields, "sex")) /\ sex_error # NoError,
            Warning("Sex validation", sex_error))
        \o Opt(Truthy(GetValue(fields, "id_number")) /\ id_error # NoError,
               Warning("ID validation", id_error))
        \o Opt(Truthy(issue_date) /\ Truthy(expiry_date) /\ date_error # NoError,
               Warning("Date validation", date_error))

\* _validate_fields: the warnings it adds, in order.
emirates_validate_warnings(fields) ==
    LET id_error == validate_emirates_id_number(GetValue(fields, "id_number"))
        issue_date == GetValue(fields, "issue_date")
        expiry_date == GetValue(fields, "expiry_date")
        date_error == validate_date_consistency(issue_date, expiry_date)
        sex_error == validate_sex(GetValue(fields, "sex"))
    IN  Opt(Truthy(GetValue(fields, "id_number")) /\ id_error # NoError,
            Warning("ID validation", id_error))
        \o Opt(Truthy(issue_date) /\ Truthy(expiry_date) /\ date_error # NoError,
               Warning("Date validation", date_error))
        \o Opt(Truthy(GetValue(fields, "sex")) /\ sex_error # NoError,
               Warning("Sex validation", sex_error))

(***************************************************************************)
(* Scan requests: api/v1/endpoints/*.py and BasePipeline.run               *)
(*                                                                         *)
(* A request is an upload the endpoint has already read, validated and     *)
(* decoded; the model follows it from get_pipeline() to the response.       *)
(* Each endpoint module holds one pipeline object, and that object's       *)
(* self.warnings refers to a list: lists are objects of heap, named by     *)
(* their index, so that two references to one list see the same content.   *)
(***************************************************************************)
DocTypes == {"emirates_id", "passport"}

MaxReq == 2

Requests == 1..MaxReq

HTTPException(status_code, detail, text) ==
    [type |-> "HTTPException", status_code |-> status_code, detail |-> detail,
     text |-> text]

\* An exception of a collaborator or of the interpreter; text is str(e).
OtherException(type, text) ==
    [type |-> type, status_code |-> 0, detail |-> "", text |-> text]

NoResult == [fields |-> <<>>, warnings |-> 0]

NoResponse ==
    [status_code |-> 0, detail |-> "", text |-> "", fields |-> <<>>, warnings |-> <<>>]

IdleRequest ==
    [pc |-> "idle",
     doc |-> "",
     collaborator |-> "",       \* ghost: "returned" / "raised", the collaborator calls so far
     mrz_found |-> FALSE,       \* ghost: the MRZ reader returned a record
     mrz_data |-> NoMrz,
     boxes |-> <<>>,            \* ghost: the boxes the detector returned
     ocr |-> <<>>,              \* ghost: the spans the recognizer returned, per call
     detections |-> <<>>,
     idx |-> 0,
     fields |-> <<>>,
     added |-> <<>>,            \* ghost: the warnings this request's run passed to add_warning
     result |-> NoResult,
     response |-> NoResponse]

ScanIdle ==
    /\ pipeline = [d \in DocTypes |-> 0]
    /\ heap = <<>>
    /\ req = [r \in Requests |-> IdleRequest]

InternalErrorDetail(doc) ==
    IF doc = "passport" THEN "Internal server error during passport processing"
    ELSE "Internal server error during Emirates ID processing"

\* "except HTTPException: raise / except Exception: raise HTTPException(500, ...)"
\* of scan_passport, scan_emirates_id and EmiratesIDPipeline.process.
scan_except(doc, exc) ==
    IF exc.type = "HTTPException" THEN exc
    ELSE HTTPException(500, InternalErrorDetail(doc), "")

\* The request ends with the error response FastAPI builds from exc.
Failed(q, exc) ==
    [q EXCEPT !.pc = "failed",
              !.response = [NoResponse EXCEPT !.status_code = exc.status_code,
                                              !.detail = exc.detail,
                                              !.text = exc.text]]

\* self.warnings.append(message) for each message of ws, by request r.
add_warning(r, ws) ==
    heap' = [heap EXCEPT ![pipeline[req[r].doc]] = @ \o ws]

Scan(r, docs) ==
    /\ req[r].pc = "idle"
    /\ \E doc \in docs :
           req' = [req EXCEPT ![r] = [@ EXCEPT !.pc = "get_pipeline", !.doc = doc]]
    /\ UNCHANGED <<pipeline, heap, fnVars>>

\* get_pipeline(): the constructor runs once per module; EmiratesIDPipeline's
\* _load_models may raise RuntimeError, and _pipeline then stays None.
GetPipeline(r) ==
    /\ req[r].pc = "get_pipeline"
    /\ LET doc == req[r].doc
       IN  IF pipeline[doc] # 0
           THEN /\ req' = [req EXCEPT ![r].pc = "run"]
                /\ UNCHANGED <<pipeline, heap>>
           ELSE \E loaded \in IF doc = "emirates_id" THEN BOOLEAN ELSE {TRUE} :
                    IF loaded
                    THEN /\ heap' = Append(heap, <<>>)
                         /\ pipeline' = [pipeline EXCEPT ![doc] = Len(heap) + 1]
                         /\ req' = [req EXCEPT ![r].pc = "run"]
                    ELSE /\ req' = [req EXCEPT ![r] =
                                       Failed(@, scan_except(doc,
                                           OtherException("RuntimeError",
                                                          "Failed to load models")))]
                         /\ UNCHANGED <<pipeline, heap>>
    /\ UNCHANGED fnVars

\* "self.warnings = []": the list self.warnings refers to after the
\* assignment, given the one it referred to and the newly created one.
ResetWarningsMutKeep(old, fresh) == old

ResetWarnings(old, fresh) == fresh

\* BasePipeline.run up to the call of process.
Run(r) ==
    /\ req[r].pc = "run"
    /\ heap' = Append(heap, <<>>)
    /\ pipeline' = [pipeline EXCEPT ![req[r].doc] = ResetWarnings(@, Len(heap) + 1)]
    /\ req' = [req EXCEPT ![r].pc =
                  IF req[r].doc = "passport" THEN "extract_mrz" ELSE "detect_fields"]
    /\ UNCHANGED fnVars

\* _extract_mrz for the outcome o of read_mrz: it raised ("except Exception
\* as e" turns that into a 422 whose detail ends with str(e)), returned None
\* or returned a record.
extract_mrz(q, o) ==
    IF o.kind = "raises"
    THEN Failed([q EXCEPT !.collaborator = "raised"],
                scan_except(q.doc,
                    HTTPException(422, "MRZ extraction failed: {str(e)}", o.text)))
    ELSE IF o.kind = "none"
    THEN Failed([q EXCEPT !.collaborator = "returned"],
                scan_except(q.doc, HTTPException(422,
                    "No MRZ detected in image. Ensure passport MRZ is visible and clear.",
                    "")))
    ELSE IF ~Truthy(o.mrz.mrz_type)
    THEN Failed([q EXCEPT !.collaborator = "returned", !.mrz_found = TRUE,
                          !.mrz_data = o.mrz],
                scan_except(q.doc,
                    HTTPException(422, "MRZ detected but could not be parsed", "")))
    ELSE [q EXCEPT !.collaborator = "returned", !.mrz_found = TRUE,
                   !.mrz_data = o.mrz, !.pc = "parse_mrz_fields"]

ExtractMrz(r, outcomes) ==
    /\ req[r].pc = "extract_mrz"
    /\ \E o \in outcomes : req' = [req EXCEPT ![r] = extract_mrz(@, o)]
    /\ UNCHANGED <<pipeline, heap, fnVars>>

ParseMrzFields(r) ==
    /\ req[r].pc = "parse_mrz_fields"
    /\ req' = [req EXCEPT ![r] = [@ EXCEPT !.pc = "normalize_fields",
                                           !.fields = parse_mrz_fields(req[r].mrz_data)]]
    /\ UNCHANGED <<pipeline, heap, fnVars>>

\* _detect_fields and the "if not detections" of process, for the outcome o
\* of yolo_model.predict: it raised (outside the try of process) or returned
\* boxes.  With no detection the loop of _extract_text_from_detections has no
\* iteration.
detect(q, o) ==
    IF o.kind = "raises"
    THEN Failed([q EXCEPT !.collaborator = "raised"],
                scan_except(q.doc, OtherException("Exception", o.text)))
    ELSE LET detections == detect_fields(o.boxes, Len(o.boxes))
             returned == [q EXCEPT !.collaborator = "returned",
                                   !.boxes = o.boxes,
                                   !.detections = detections]
         IN  IF NoDetections(detections)
             THEN Failed(returned, scan_except(q.doc, HTTPException(422,
                      "No Emirates ID fields detected. Please ensure the image is clear and contains an Emirates ID.",
                      "")))
             ELSE [returned EXCEPT !.idx = 1,
                                   !.pc = IF detections = <<>> THEN "normalize_fields"
                                          ELSE "extract_text"]

DetectFields(r, outcomes) ==
    /\ req[r].pc = "detect_fields"
    /\ \E o \in outcomes : req' = [req EXCEPT ![r] = detect(@, o)]
    /\ UNCHANGED <<pipeline, heap, fnVars>>

\* One iteration of the loop of _extract_text_from_detections, for the
\* outcome of ocr_reader.readtext on the region of detections[idx];
\* outcomes[name] are the outcomes for the region of field name.
ExtractText(r, outcomes) ==
    /\ req[r].pc = "extract_text"
    /\ LET q == req[r]
           detection == q.detections[q.idx]
       IN  \E o \in outcomes[detection.name] :
               IF o.kind = "raises"
               THEN /\ req' = [req EXCEPT ![r] =
                                  Failed([q EXCEPT !.collaborator = "raised"],
                                         scan_except(q.doc, scan_except(q.doc,
                                             OtherException("Exception", o.text))))]
                    /\ UNCHANGED heap
               ELSE /\ add_warning(r, extract_warnings(detection, o.spans))
                    /\ req' = [req EXCEPT ![r] =
                          [q EXCEPT !.ocr = Append(@, o.spans),
                                    !.fields = Append(@, extract_field(detection, o.spans)),
                                    !.added = @ \o extract_warnings(detection, o.spans),
                                    !.idx = @ + 1,
                                    !.pc = IF q.idx = Len(q.detections)
                                           THEN "normalize_fields" ELSE "extract_text"]]
    /\ UNCHANGED <<pipeline, fnVars>>

NormalizeFields(r) ==
    /\ req[r].pc = "normalize_fields"
    /\ req' = [req EXCEPT ![r] =
                  [@ EXCEPT !.pc = "validate_fields",
                            !.fields = IF req[r].doc = "passport"
                                       THEN passport_normalize_fields(@)
                                       ELSE emirates_normalize_fields(@)]]
    /\ UNCHANGED <<pipeline, heap, fnVars>>

\* EmiratesIDPipeline._validate_fields, and PassportPipeline._validate_fields
\* up to the check-digit blocks.
ValidateFields(r) ==
    /\ req[r].pc = "validate_fields"
    /\ LET q == req[r]
           ws == IF q.doc = "passport" THEN passport_number_warnings(q.fields)
                 ELSE emirates_validate_warnings(q.fields)
       IN  /\ add_warning(r, ws)
           /\ req' = [req EXCEPT ![r] =
                         [q EXCEPT !.added = @ \o ws,
                                   !.idx = 1,
                                   !.pc = IF q.doc = "passport" THEN "check_digit"
                                          ELSE "return"]]
    /\ UNCHANGED <<pipeline, fnVars>>

\* Check-digit block idx of PassportPipeline._validate_fields; the TypeError
\* of validate_mrz_checksum is not caught before scan_passport.
ValidateCheckDigit(r) ==
    /\ req[r].pc = "check_digit"
    /\ LET q == req[r]
           ws == check_digit_block_warnings(q.mrz_data, q.idx)
       IN  IF check_digit_block_raises(q.mrz_data, q.idx)
           THEN /\ req' = [req EXCEPT ![r] =
                              Failed(q, scan_except(q.doc,
                                  OtherException("TypeError",
                                                 "'NoneType' object is not iterable")))]
                /\ UNCHANGED heap
           ELSE /\ add_warning(r, ws)
                /\ req' = [req EXCEPT ![r] =
                              [q EXCEPT !.added = @ \o ws,
                                        !.idx = @ + 1,
                                        !.pc = IF q.idx = Len(CheckDigitBlocks)
                                               THEN "return" ELSE "check_digit"]]
    /\ UNCHANGED <<pipeline, fnVars>>

\* The return of BasePipeline.run: the dict holds the fields and the list
\* self.warnings refers to at that moment.
Return(r) ==
    /\ req[r].pc = "return"
    /\ req' = [req EXCEPT ![r] =
                  [@ EXCEPT !.pc = "respond",
                            !.result = [fields |-> req[r].fields,
                                        warnings |-> pipeline[req[r].doc]]]]
    /\ UNCHANGED <<pipeline, heap, fnVars>>

\* ScanResponse(...): pydantic copies the warnings list into the response.
Respond(r) ==
    /\ req[r].pc = "respond"
    /\ req' = [req EXCEPT ![r] =
                  [@ EXCEPT !.pc = "done",
                            !.response = [NoResponse EXCEPT
                                              !.status_code = 200,
                                              !.fields = req[r].result.fields,
                                              !.warnings = heap[req[r].result.warnings]]]]
    /\ UNCHANGED <<pipeline, heap, fnVars>>

(***************************************************************************)
(* Bounded inputs of the pure-function harness                             *)
(***************************************************************************)
MaxDataLen == 4
MaxDateLen == 6

RECURSIVE StringsUpTo(_, _)
StringsUpTo(alphabet, n) ==
    IF n = 0 THEN {<<>>}
    ELSE LET shorter == StringsUpTo(alphabet, n - 1)
         IN  shorter \cup {Append(s, c) : s \in {t \in shorter : Len(t) = n - 1},
                                          c \in alphabet}

\* MRZ alphabet samples: digits, letters, the filler.
DataAlphabet == {"0", "3", "9", "A", "Z", "<"}

DataStrings == StringsUpTo(DataAlphabet, MaxDataLen) \cup {NoneVal}

CheckDigits ==
    {NoneVal, <<>>, <<"<">>, <<"A">>, <<"+", "7">>}
    \cup {<<DigitChars[i]>> : i \in 1..10}

\* Digits (with the 50/51 century boundary), a letter and a sign character.
DateAlphabet == {"0", "1", "5", "O", "+"}

DateStrings == StringsUpTo(DateAlphabet, MaxDateLen) \cup {NoneVal}

(***************************************************************************)
(* Pure-function harness: Init draws the inputs, one action applies the    *)
(* function.                                                               *)
(***************************************************************************)
InitChecksum ==
    /\ args \in [fn : {"validate_mrz_checksum"}, data : DataStrings,
                 check_digit : CheckDigits]
    /\ ret = Pending
    /\ ScanIdle

Call_validate_mrz_checksum ==
    /\ args.fn = "validate_mrz_checksum"
    /\ ret = Pending
    /\ ret' = IF validate_mrz_checksum_raises(args.data, args.check_digit)
              THEN [raised |-> "TypeError", value |-> FALSE]
              ELSE [raised |-> "",
                    value |-> validate_mrz_checksum(args.data, args.check_digit)]
    /\ UNCHANGED <<args, scanVars>>

NextChecksum == Call_validate_mrz_checksum

SpecChecksum == InitChecksum /\ [][NextChecksum]_vars

InitMrzDate ==
    /\ args \in [fn : {"_parse_mrz_date"}, mrz_date : DateStrings]
    /\ ret = Pending
    /\ ScanIdle

Call_parse_mrz_date ==
    /\ args.fn = "_parse_mrz_date"
    /\ ret = Pending
    /\ ret' = [raised |-> "", value |-> parse_mrz_date(args.mrz_date)]
    /\ UNCHANGED <<args, scanVars>>

NextMrzDate == Call_parse_mrz_date

SpecMrzDate == InitMrzDate /\ [][NextMrzDate]_vars


(***************************************************************************)
(* Evidence: the outcomes of the collaborators the requests draw from      *)
(***************************************************************************)
MaxBoxes == 2

Raises(text) == [kind |-> "raises", text |-> text, mrz |-> NoMrz, boxes |-> <<>>,
                 spans |-> <<>>]

Returns(kind, mrz, boxes, spans) ==
    [kind |-> kind, text |-> "", mrz |-> mrz, boxes |-> boxes, spans |-> spans]

\* read_mrz: it raises, finds no MRZ, or returns one of records.
ReaderOutcomes(records) ==
    {Raises("str(e) of the MRZ reader"), Returns("none", NoMrz, <<>>, <<>>)}
    \cup {Returns("record", m, <<>>, <<>>) : m \in records}

\* Records of the ICAO 9303 specimen (number L898902C3 check 6, birth 740812
\* check 2, expiry 120415 check 9) with attributes absent, filled with "<",
\* malformed or carrying another check digit.
MrzRecords ==
    {[NoMrz EXCEPT !.mrz_type = t] : t \in {NoneVal, <<>>}}
    \cup [mrz_type : {<<"T", "D", "3">>},
          names : {NoneVal, <<"D", "O", "E", "<", "<", "J", "O">>},
          number : {NoneVal, <<"L", "8", "9", "8", "9", "0", "2", "C", "3">>, <<"A", "B", "<", "<", "<", "<", "<", "<", "<">>, <<"<", "<", "<", "<", "<", "<", "<", "<", "<">>},
          check_number : {NoneVal, <<"<">>, <<"6">>, <<"1">>},
          nationality : {<<"U", "T", "O">>},
          date_of_birth : {NoneVal, <<"7", "4", "0", "8", "1", "2">>, <<"+", "1", "+", "2", "+", "3">>},
          check_date_of_birth : {NoneVal, <<"2">>, <<"A">>},
          sex : {NoneVal, <<"F">>},
          expiration_date : {NoneVal, <<"1", "2", "0", "4", "1", "5">>},
          check_expiration_date : {NoneVal, <<"9">>, <<"0">>}]

\* A small set for the specifications with several requests: a clean
\* record, one that earns warnings, one that earns a warning and then fails.
FewMrzRecords ==
    {[NoMrz EXCEPT !.mrz_type = <<"T", "D", "3">>, !.number = <<"L", "8", "9", "8", "9", "0", "2", "C", "3">>, !.check_number = <<"6">>],
     [NoMrz EXCEPT !.mrz_type = <<"T", "D", "3">>, !.number = <<"A", "B", "<", "<", "<", "<", "<", "<", "<">>, !.check_number = <<"6">>,
                   !.date_of_birth = <<"7", "4", "0", "8", "1", "2">>, !.check_date_of_birth = <<"A">>],
     [NoMrz EXCEPT !.mrz_type = <<"T", "D", "3">>, !.number = <<"A", "B", "<", "<", "<", "<", "<", "<", "<">>, !.check_number = <<"6">>,
                   !.check_date_of_birth = <<"2">>]}

BoxNames == {"id_number", "sex", "expiry_date"}

\* The detector is asked for boxes of confidence MIN_DETECTION_CONFIDENCE or more.
BoxConfidences == {c \in {250, 400, 900} : c >= MIN_DETECTION_CONFIDENCE}

Box(name, confidence) ==
    [name |-> name, bbox |-> <<10125, 20000, 110000, 40375>>, confidence |-> confidence]

\* yolo_model.predict: it raises or returns a sequence of boxes.
DetectorOutcomes(boxes, n) ==
    {Raises("str(e) of the detector")}
    \cup {Returns("boxes", NoMrz, b, <<>>) : b \in StringsUpTo(boxes, n)}

Span(top, text, confidence) == [top |-> top, text |-> text, confidence |-> confidence]

\* What the recognizer may read in the region of a field: one confident
\* span, one doubtful span, or two spans listed bottom first.
SpanLists ==
    [name \in BoxNames |->
        CASE name = "id_number" ->
                 {<<Span(10, <<"7", "8", "4", "-", "1", "9", "9", "0", "-", "1", "2", "3", "4", "5", "6", "7", "-", "1">>, 900)>>,
                  <<Span(20, <<"1", "2", "3", "4", "5", "6", "7", "-", "1">>, 300), Span(10, <<"7", "8", "4", "-", "1", "9", "9", "0">>, 100)>>}
          [] name = "sex" ->
                 {<<Span(10, <<"M">>, 900)>>, <<Span(10, <<"X">>, 200)>>}
          [] OTHER ->
                 {<<Span(10, <<"0", "1", "/", "0", "2", "/", "2", "0", "3", "0">>, 900)>>, <<Span(10, <<"s", "o", "o", "n">>, 800)>>}]

\* ocr_reader.readtext: it raises, reads nothing or returns spans.
RecognizerOutcomes(lists) ==
    [name \in DOMAIN lists |->
        {Raises("str(e) of the recognizer"), Returns("spans", NoMrz, <<>>, <<>>)}
        \cup {Returns("spans", NoMrz, <<>>, s) : s \in lists[name]}]

\* A small set for the specifications with several requests: a doubtful
\* sex (two warnings) and none or one more field after it.
FewBoxes == {Box("sex", 900), Box("id_number", 900)}

FewSpanLists ==
    [name \in BoxNames |->
        IF name = "sex" THEN {<<Span(10, <<"X">>, 200)>>} ELSE {}]

(***************************************************************************)
(* Specifications of the scan requests                                     *)
(***************************************************************************)
InitScan ==
    /\ args = [fn |-> "scan"]
    /\ ret = Pending
    /\ ScanIdle

Finished(r) == req[r].pc \in {"done", "failed"}

InOrder(r) == IF r = 1 THEN TRUE ELSE Finished(r - 1)

\* The steps of request r that do not call a collaborator.
Step(r) ==
    \/ GetPipeline(r)
    \/ Run(r)
    \/ ParseMrzFields(r)
    \/ NormalizeFields(r)
    \/ ValidateFields(r)
    \/ ValidateCheckDigit(r)
    \/ Return(r)
    \/ Respond(r)

\* One request, over the whole evidence.
Next ==
    \/ Scan(1, DocTypes)
    \/ ExtractMrz(1, ReaderOutcomes(MrzRecords))
    \/ DetectFields(1, DetectorOutcomes({Box(n, c) : n \in BoxNames, c \in BoxConfidences},
                                        MaxBoxes))
    \/ ExtractText(1, RecognizerOutcomes(SpanLists))
    \/ Step(1)

Spec == InitScan /\ [][Next]_vars

\* Requests served one after the other, as the event loop runs the
\* endpoints: a request starts when the one before it has its response.
NextSeq ==
    \E r \in Requests :
        \/ InOrder(r) /\ Scan(r, DocTypes)
        \/ ExtractMrz(r, ReaderOutcomes(FewMrzRecords))
        \/ DetectFields(r, DetectorOutcomes(FewBoxes, MaxBoxes))
        \/ ExtractText(r, RecognizerOutcomes(FewSpanLists))
        \/ Step(r)

SpecSeq == InitScan /\ [][NextSeq]_vars

\* Requests run in parallel (threads or tasks interleaved between any two
\* steps of run), all on the pipeline object get_pipeline returns.
NextPar ==
    \E r \in Requests :
        \/ Scan(r, DocTypes)
        \/ ExtractMrz(r, ReaderOutcomes(FewMrzRecords))
        \/ DetectFields(r, DetectorOutcomes(FewBoxes, MaxBoxes))
        \/ ExtractText(r, RecognizerOutcomes(FewSpanLists))
        \/ Step(r)

SpecPar == InitScan /\ [][NextPar]_vars

(***************************************************************************)
(* Properties of validate_mrz_checksum                                     *)
(***************************************************************************)
\* The ICAO 9303 character value as the specification states it: digits 0..9,
\* letters A..Z 10..35, the filler "<" 0.
IcaoLetters ==
    <<"A", "B", "C", "D", "E", "F", "G", "H", "I", "J", "K", "L", "M",
      "N", "O", "P", "Q", "R", "S", "T", "U", "V", "W", "X", "Y", "Z">>

IcaoValue(c) ==
    IF IsDigit(c) THEN DigitVal(c)
    ELSE IF c = "<" THEN 0
    ELSE 9 + (CHOOSE i \in 1..26 : IcaoLetters[i] = c)

IsMrzChar(c) == IsDigit(c) \/ c = "<" \/ \E i \in 1..26 : IcaoLetters[i] = c

RECURSIVE IcaoSum(_, _)
IcaoSum(data, n) ==
    IF n = 0 THEN 0
    ELSE IcaoSum(data, n - 1) + IcaoValue(data[n]) * (<<7, 3, 1>>)[((n - 1) % 3) + 1]

IcaoCheckDigit(data) == IcaoSum(data, Len(data)) % 10

IsMrzString(data) == data # NoneVal /\ \A i \in 1..Len(data) : IsMrzChar(data[i])

IsDecimalDigit(check_digit) ==
    check_digit # NoneVal /\ Len(check_digit) = 1 /\ IsDigit(check_digit[1])

ChecksumReturned == args.fn = "validate_mrz_checksum" /\ ret # Pending

\* C7: for every data string over the MRZ alphabet and every decimal check
\* digit c, validate_mrz_checksum(data, c) is true exactly when c equals the
\* ICAO weighted sum (weights 7,3,1; "<" counted as 0) modulo 10.
C7_ChecksumIsIcaoMod10 ==
    (ChecksumReturned /\ IsMrzString(args.data) /\ IsDecimalDigit(args.check_digit))
        => /\ ret.raised = ""
           /\ ret.value = (DigitVal(args.check_digit[1]) = IcaoCheckDigit(args.data))

\* C8: a check digit that is "<", empty or absent validates true whatever the
\* data; any other check digit that is not a single decimal digit equal to the
\* computed (ICAO) value validates false.
C8_FillerPassesOthersMustMatch ==
    ChecksumReturned =>
        /\ (~Truthy(args.check_digit) \/ args.check_digit = <<"<">>)
               => (ret.raised = "" /\ ret.value = TRUE)
        /\ ( /\ Truthy(args.check_digit)
             /\ args.check_digit # <<"<">>
             /\ IsMrzString(args.data)
             /\ ~ /\ IsDecimalDigit(args.check_digit)
                  /\ DigitVal(args.check_digit[1]) = IcaoCheckDigit(args.data) )
               => (ret.raised = "" /\ ret.value = FALSE)

(***************************************************************************)
(* Properties of _parse_mrz_date                                           *)
(***************************************************************************)
MrzDateReturned == args.fn = "_parse_mrz_date" /\ ret # Pending

IsSixDigits(s) == s # NoneVal /\ Len(s) = 6 /\ \A i \in 1..6 : IsDigit(s[i])

\* C9: a six-digit YYMMDD resolves to 19YY when YY > 50 and to 20YY when
\* YY <= 50, followed by the month and day digits of the input as they are.
C9_CenturyResolution ==
    (MrzDateReturned /\ IsSixDigits(args.mrz_date)) =>
        LET s == args.mrz_date
            yy == 10 * DigitVal(s[1]) + DigitVal(s[2])
            century == IF yy > 50 THEN <<"1", "9">> ELSE <<"2", "0">>
        IN  ret.value = century \o SubSeq(s, 1, 2) \o <<"-">> \o SubSeq(s, 3, 4)
                        \o <<"-">> \o SubSeq(s, 5, 6)

\* YY = 50 resolved to 2050 and YY = 51 to 1951 are both reached.
C9_Witness ==
    /\ MrzDateReturned
    /\ args.mrz_date = <<"5", "0", "1", "5", "5", "5">>
    /\ ret.value = <<"2", "0", "5", "0", "-", "1", "5", "-", "5", "5">>

\* C10: a raw date whose length is not 6 or that holds a character outside
\* 0-9 resolves to None.
C10_NonDigitDateIsNone ==
    (MrzDateReturned /\ args.mrz_date # NoneVal /\ ~IsSixDigits(args.mrz_date))
        => ret.value = NoneVal

(***************************************************************************)
(* Properties of the scan requests                                         *)
(***************************************************************************)
NoEvidenceDetail ==
    "No Emirates ID fields detected. Please ensure the image is clear and contains an Emirates ID."

\* The detector returned and no field was detected.
ZeroDetections(q) ==
    q.doc = "emirates_id" /\ q.collaborator = "returned" /\ q.detections = <<>>

\* C1: on the ID-card path, whenever the detector returns zero fields the
\* request ends in the NoEvidence failure (HTTP 422): no field is extracted,
\* no warning is added, run returns no result and the response carries no
\* fields and no warnings.
C1_ZeroDetectionsIsNoEvidence ==
    \A r \in Requests :
        ZeroDetections(req[r]) =>
            /\ req[r].pc = "failed"
            /\ req[r].response.status_code = 422
            /\ req[r].response.detail = NoEvidenceDetail
            /\ req[r].fields = <<>>
            /\ req[r].added = <<>>
            /\ req[r].result = NoResult
            /\ req[r].response.fields = <<>>
            /\ req[r].response.warnings = <<>>

C1_Witness ==
    /\ ZeroDetections(req[1])
    /\ req[1].pc = "failed"
    /\ req[1].response.status_code = 422

\* The two documented hard failures: zero detected fields, no MRZ record or
\* a record whose type code is empty.
HardFailureEvidence(q) ==
    \/ q.doc = "emirates_id" /\ q.detections = <<>>
    \/ q.doc = "passport" /\ (~q.mrz_found \/ ~Truthy(q.mrz_data.mrz_type))

\* C2: a scan whose collaborators all returned aborts only on zero detected
\* fields (ID) or on no MRZ record / an empty type code (passport); for every
\* other evidence it ends with a result carrying fields and a warnings list.
C2_OnlyHardFailuresAbort ==
    \A r \in Requests :
        (Finished(r) /\ req[r].collaborator = "returned") =>
            IF HardFailureEvidence(req[r])
            THEN req[r].pc = "failed"
            ELSE /\ req[r].pc = "done"
                 /\ req[r].response.status_code = 200
                 /\ req[r].response.fields = req[r].fields
                 /\ req[r].response.warnings = req[r].added

\* C3: an exception raised by a collaborator reaches the caller as HTTP 500
\* with the fixed generic message and no exception text, never as a 422 and
\* never as a result.
C3_CollaboratorExceptionIsInternalError ==
    \A r \in Requests :
        (Finished(r) /\ req[r].collaborator = "raised") =>
            /\ req[r].pc = "failed"
            /\ req[r].response.status_code = 500
            /\ req[r].response.detail = InternalErrorDetail(req[r].doc)
            /\ req[r].response.text = ""

\* The check digit does not equal the ICAO value computed over the data.
IcaoMismatch(data, check_digit) ==
    ~ /\ IsDecimalDigit(check_digit)
      /\ data # NoneVal
      /\ DigitVal(check_digit[1]) = IcaoCheckDigit(data)

Count(ws, kind) == Cardinality({i \in 1..Len(ws) : ws[i].kind = kind})

\* C4: for every MRZ record that passes the two hard-failure checks the scan
\* returns its result, and for each of passport number, date of birth and
\* expiration date whose check digit is present and not "<", a mismatch has
\* put exactly one warning for that field in the result.
C4_CheckDigitMismatchWarnsOnce ==
    \A r \in Requests :
        ( /\ Finished(r)
          /\ req[r].doc = "passport"
          /\ req[r].collaborator = "returned"
          /\ ~HardFailureEvidence(req[r]) ) =>
            /\ req[r].pc = "done"
            /\ \A k \in 1..Len(CheckDigitBlocks) :
                   LET data == req[r].mrz_data[CheckDigitBlocks[k].data]
                       check == req[r].mrz_data[CheckDigitBlocks[k].check]
                   IN  (Truthy(check) /\ check # <<"<">> /\ IcaoMismatch(data, check))
                           => Count(req[r].response.warnings,
                                    CheckDigitBlocks[k].warning) = 1

\* C5: with requests processed in parallel, the warnings list of each
\* returned result holds exactly the warnings that request's own run added,
\* in order.
C5_ParallelWarningsAreOwn ==
    \A r \in Requests :
        req[r].pc \in {"respond", "done"} =>
            heap[req[r].result.warnings] = req[r].added

\* C6: with requests processed one after the other on the same pipeline
\* object, the warnings of every returned result are exactly those added
\* during its own run, and stay so while later requests run and fail.
C6_SequentialWarningsAreOwn ==
    \A r \in Requests :
        /\ req[r].pc \in {"respond", "done"}
               => heap[req[r].result.warnings] = req[r].added
        /\ req[r].pc = "done" => req[r].response.warnings = req[r].added

\* A run that failed after adding warnings was followed, on the same
\* pipeline object, by a successful run with warnings of its own.
C6_Witness ==
    /\ req[1].pc = "failed"
    /\ req[1].added # <<>>
    /\ req[2].pc = "done"
    /\ req[2].doc = req[1].doc
    /\ req[2].added # <<>>
    /\ req[2].response.warnings = req[2].added

(***************************************************************************)
(* Functions of utils/ and of the pipelines called directly               *)
(***************************************************************************)
\* The YYYY-MM-DD string of a date.
IsoDate(year, month, day) ==
    FormatD(year, 4) \o <<"-">> \o FormatD(month, 2) \o <<"-">> \o FormatD(day, 2)

\* Valid calendar dates around a year change and a leap day.
IsoDates ==
    {IsoDate(y, m, d) : y \in {2019, 2020}, m \in {1, 2, 12}, d \in {1, 9, 28}}
    \cup {IsoDate(2020, 2, 29), IsoDate(2019, 12, 31), IsoDate(2025, 1, 1)}

MaxIdLen == 3

\* Short strings over digits, confusable letters, separators and a stray
\* character, and 14 to 16 digit candidates written with confusable letters
\* and various separators.
IdInputs ==
    StringsUpTo({"7", "O", "l", "_", " ", "-", "x"}, MaxIdLen)
    \cup {<<"7", "8", "4">> \o s1 \o year \o s2 \o serial \o s2 \o check :
              s1 \in {<<>>, <<"-">>, <<"_">>, <<" ">>, <<"/">>},
              s2 \in {<<>>, <<"-">>, <<"_">>, <<" ">>, <<"/">>},
              year \in {<<"1", "9", "9", "0">>, <<"1", "9", "9", "O">>, <<"l", "9", "9", "o">>},
              serial \in {<<"1", "2", "3", "4", "5", "6", "7">>, <<"I", "2", "3", "4", "5", "6", "7">>, <<"1", "2", "3", "4", "5", "6">>},
              check \in {<<"1">>, <<>>, <<"1", "2">>}}

Call_normalize_emirates_id ==
    /\ args.fn = "normalize_emirates_id"
    /\ ret = Pending
    /\ ret' = [raised |-> "",
               value |-> [once |-> normalize_emirates_id(args.id_number),
                          twice |-> normalize_emirates_id(
                                        normalize_emirates_id(args.id_number))]]
    /\ UNCHANGED <<args, scanVars>>

\* The month names as a document prints them.
MonthWritten ==
    << <<"J", "a", "n", "u", "a", "r", "y">>,
       <<"F", "e", "b", "r", "u", "a", "r", "y">>,
       <<"M", "a", "r", "c", "h">>,
       <<"A", "p", "r", "i", "l">>,
       <<"M", "a", "y">>,
       <<"J", "u", "n", "e">>,
       <<"J", "u", "l", "y">>,
       <<"A", "u", "g", "u", "s", "t">>,
       <<"S", "e", "p", "t", "e", "m", "b", "e", "r">>,
       <<"O", "c", "t", "o", "b", "e", "r">>,
       <<"N", "o", "v", "e", "m", "b", "e", "r">>,
       <<"D", "e", "c", "e", "m", "b", "e", "r">> >>

\* Day d of month m of year y written in the i-th of the supported formats:
\* DD/MM/YYYY, DD-MM-YYYY, DD.MM.YYYY, YYYY-MM-DD, DD Mon YYYY, DD Month YYYY.
Written(y, m, d, i) ==
    LET dd == FormatD(d, 2)
        mm == FormatD(m, 2)
        yyyy == FormatD(y, 4)
    IN  CASE i = 1 -> dd \o <<"/">> \o mm \o <<"/">> \o yyyy
          [] i = 2 -> dd \o <<"-">> \o mm \o <<"-">> \o yyyy
          [] i = 3 -> dd \o <<".">> \o mm \o <<".">> \o yyyy
          [] i = 4 -> yyyy \o <<"-">> \o mm \o <<"-">> \o dd
          [] i = 5 -> dd \o <<" ">> \o SubSeq(MonthWritten[m], 1, 3) \o <<" ">> \o yyyy
          [] i = 6 -> dd \o <<" ">> \o MonthWritten[m] \o <<" ">> \o yyyy

\* Dates of two years (one a leap year) in every format, days the month may
\* not have included, and strings in no supported format.
DateInputs ==
    {Written(y, m, dd, i) : y \in {2020, 2021}, m \in 1..12, dd \in {1, 15, 29, 31},
                            i \in 1..6}
    \cup {<<>>,
          <<"s", "o", "o", "n">>,
          <<"2", "0", "2", "0">>,
          <<"1", "5", "/", "1", "3", "/", "2", "0", "2", "0">>,
          <<"0", "0", "/", "0", "1", "/", "2", "0", "2", "0">>,
          <<"1", "5", " ", "F", "o", "o", " ", "2", "0", "2", "0">>,
          <<"2", "0", "2", "0", "/", "0", "1", "/", "1", "5">>,
          <<"1", "5", "/", "0", "1", "/", "2", "0">>,
          <<"1", "5", "-", "0", "1", "/", "2", "0", "2", "0">>,
          <<"1", "5", " ", "1", "0", " ", "2", "0", "2", "0">>,
          <<"O", "c", "t", " ", "1", "5", " ", "2", "0", "2", "0">>}

Call_normalize_date ==
    /\ args.fn = "normalize_date"
    /\ ret = Pending
    /\ ret' = [raised |-> "", value |-> normalize_date(args.date_str)]
    /\ UNCHANGED <<args, scanVars>>

MaxNameLen == 4

\* Short strings over letters of both cases, a hyphen, an apostrophe, a digit
\* and the space, and a few names.
NameInputs ==
    StringsUpTo({"a", "B", "-", "'", "3", " "}, MaxNameLen)
    \cup {<<"j", "e", "a", "n", "-", "p", "a", "u", "l">>,
          <<"o", "'", "n", "e", "i", "l", " ", "3", "r", "d">>,
          <<" ", " ", "A", "L", "I", " ", " ", " ", "b", "i", "n", " ", " ">>,
          <<"m", "c", "D", "o", "n", "a", "l", "d">>,
          <<"A", "N", "N", "E", "-", "M", "A", "R", "I", "E">>}

Call_normalize_name ==
    /\ args.fn = "normalize_name"
    /\ ret = Pending
    /\ ret' = [raised |-> "", value |-> normalize_name(args.name)]
    /\ UNCHANGED <<args, scanVars>>

MaxSexLen == 3

\* The words the code maps, other words, and short strings with spaces.
SexInputs ==
    StringsUpTo({"m", "F", "x", " "}, MaxSexLen)
    \cup {<<"M", "A", "L", "E">>,
          <<"m", "a", "l", "e">>,
          <<" ", "M", "a", "l", "e", " ">>,
          <<"M", "A", "N">>,
          <<"m", "a", "n">>,
          <<"F", "E", "M", "A", "L", "E">>,
          <<"F", "e", "m", "a", "l", "e">>,
          <<"W", "O", "M", "A", "N">>,
          <<"w", "o", "m", "a", "n">>,
          <<"u", "n", "k", "n", "o", "w", "n">>,
          <<"M", "A", "L", "E", "S">>,
          <<"o", "t", "h", "e", "r">>,
          <<" ", "f">>}

Call_normalize_sex ==
    /\ args.fn = "normalize_sex"
    /\ ret = Pending
    /\ ret' = [raised |-> "", value |-> normalize_sex(args.sex)]
    /\ UNCHANGED <<args, scanVars>>

MaxSpans == 3

\* The lists readtext may return for a region: up to MaxSpans spans, in any
\* order, tops equal or not, confident or doubtful.
SpanInputs ==
    UNION {[1..n -> {Span(top, text, confidence) :
                         top \in {10, 20}, text \in {<<"A">>, <<"B", "C">>},
                         confidence \in {200, 900}}] : n \in 0..MaxSpans}

\* One iteration of the loop of _extract_text_from_detections, with the
\* value of its local final_confidence.
Call_extract_field ==
    /\ args.fn = "extract_field"
    /\ ret = Pending
    /\ ret' = [raised |-> "",
               value |-> [field |-> extract_field(args.detection, args.ocr_results),
                          final_confidence |->
                              IF args.ocr_results # <<>>
                              THEN final_confidence(args.detection, args.ocr_results)
                              ELSE ExactConf(0)]]
    /\ UNCHANGED <<args, scanVars>>

MaxDetected == 3

\* The results the detector may return: up to MaxDetected boxes over two
\* field names, two confidences and two places, in any order.
BoxInputs ==
    UNION {[1..n -> {[Box(name, confidence) EXCEPT !.bbox[1] = left] :
                         name \in {"sex", "id_number"}, confidence \in {400, 900},
                         left \in {10125, 50000}}] : n \in 0..MaxDetected}

Call_detect_fields ==
    /\ args.fn = "detect_fields"
    /\ ret = Pending
    /\ ret' = [raised |-> "", value |-> detect_fields(args.boxes, Len(args.boxes))]
    /\ UNCHANGED <<args, scanVars>>

\* The pure functions called directly: Init draws one call and its inputs,
\* the action of that function applies it.
InitFn ==
    /\ args \in [fn : {"validate_date_consistency"}, issue_date : IsoDates,
                 expiry_date : IsoDates]
               \cup [fn : {"normalize_emirates_id"}, id_number : IdInputs]
               \cup [fn : {"normalize_date"}, date_str : DateInputs]
               \cup [fn : {"normalize_name"}, name : NameInputs]
               \cup [fn : {"normalize_sex"}, sex : SexInputs]
               \cup [fn : {"extract_field"}, detection : {Box("name", 800)},
                     ocr_results : SpanInputs]
               \cup [fn : {"detect_fields"}, boxes : BoxInputs]
    /\ ret = Pending
    /\ ScanIdle

Call_validate_date_consistency ==
    /\ args.fn = "validate_date_consistency"
    /\ ret = Pending
    /\ ret' = [raised |-> "",
               value |-> validate_date_consistency(args.issue_date, args.expiry_date)]
    /\ UNCHANGED <<args, scanVars>>

NextFn ==
    \/ Call_validate_date_consistency
    \/ Call_normalize_emirates_id
    \/ Call_normalize_date
    \/ Call_normalize_name
    \/ Call_normalize_sex
    \/ Call_extract_field
    \/ Call_detect_fields

SpecFn == InitFn /\ [][NextFn]_vars

DateConsistencyReturned == args.fn = "validate_date_consistency" /\ ret # Pending

\* A YYYY-MM-DD string read as the number YYYYMMDD: later dates are larger.
DateNumber(s) == DigitsValue(DigitsOnly(s))

\* C12: for every pair of YYYY-MM-DD dates, validate_date_consistency fails,
\* with the message naming both dates, exactly when expiry is not strictly
\* after issue, and passes with no message when it is strictly later.
C12_ExpiryMustFollowIssue ==
    DateConsistencyReturned =>
        IF DateNumber(args.expiry_date) > DateNumber(args.issue_date)
        THEN ret.value = NoError
        ELSE /\ ret.value.detail = "Expiry date must be after issue date"
             /\ ret.value.text = args.expiry_date
             /\ ret.value.text2 = args.issue_date

\* Equal dates fail.
C12_Witness ==
    /\ DateConsistencyReturned
    /\ args.issue_date = IsoDate(2020, 1, 1)
    /\ args.expiry_date = IsoDate(2020, 1, 1)
    /\ ret.value.detail = "Expiry date must be after issue date"

(***************************************************************************)
(* Properties of normalize_emirates_id                                     *)
(***************************************************************************)
EmiratesIdReturned == args.fn = "normalize_emirates_id" /\ ret # Pending

\* The digits of x after O/o -> 0 and I/l -> 1, every other non-digit dropped.
RECURSIVE ConfusableDigits(_)
ConfusableDigits(x) ==
    IF x = <<>> THEN <<>>
    ELSE (IF IsDigit(Head(x)) THEN <<Head(x)>>
          ELSE IF Head(x) \in {"O", "o"} THEN <<"0">>
          ELSE IF Head(x) \in {"I", "l"} THEN <<"1">>
          ELSE <<>>) \o ConfusableDigits(Tail(x))

\* NNN-NNNN-NNNNNNN-N
Dashed(digits) ==
    SubSeq(digits, 1, 3) \o <<"-">> \o SubSeq(digits, 4, 7) \o <<"-">>
    \o SubSeq(digits, 8, 14) \o <<"-">> \o SubSeq(digits, 15, 15)

\* C13: normalize_emirates_id is idempotent for every input, and whenever
\* exactly 15 digits remain after the O/o -> 0, I/l -> 1 substitutions and the
\* removal of non-digits the result is those digits in the 3-4-7-1 dashed form.
C13_IdNormalizationIdempotent ==
    EmiratesIdReturned =>
        /\ ret.value.twice = ret.value.once
        /\ Len(ConfusableDigits(args.id_number)) = 15
               => ret.value.once = Dashed(ConfusableDigits(args.id_number))

\* A 15-digit candidate written with confusable letters and stray separators
\* was rebuilt.
C13_Witness ==
    /\ EmiratesIdReturned
    /\ Len(ConfusableDigits(args.id_number)) = 15
    /\ \E i \in 1..Len(args.id_number) : args.id_number[i] \in {"l", "o", "/"}
    /\ ret.value.once = Dashed(ConfusableDigits(args.id_number))
    /\ ret.value.twice = ret.value.once

(***************************************************************************)
(* Properties of normalize_date                                            *)
(***************************************************************************)
NormalizeDateReturned == args.fn = "normalize_date" /\ ret # Pending

\* Day d exists in month m of year y.
ValidCalendarDate(y, m, d) ==
    /\ m \in 1..12
    /\ d >= 1
    /\ d <= (IF m = 2 THEN (IF y % 4 = 0 /\ (y % 100 # 0 \/ y % 400 = 0) THEN 29 ELSE 28)
             ELSE IF m \in {4, 6, 9, 11} THEN 30 ELSE 31)

\* str is the valid date <<y, m, d>> of the sampled years in format i.
WritesDate(str, y, m, d, i) == ValidCalendarDate(y, m, d) /\ str = Written(y, m, d, i)

\* C14: normalize_date maps every valid calendar date written in a supported
\* format (numeric with /, - or ., ISO, or day, month name abbreviated or in
\* full for each of the twelve months, year) to YYYY-MM-DD, and every input
\* matching no format to None, without raising.
C14_SupportedDatesNormalize ==
    NormalizeDateReturned =>
        /\ ret.raised = ""
        /\ \A y \in {2020, 2021}, m \in 1..12, d \in 1..31, i \in 1..6 :
               WritesDate(args.date_str, y, m, d, i) => ret.value = IsoDate(y, m, d)
        /\ (~ \E y \in {2020, 2021}, m \in 1..12, d \in 1..31, i \in 1..6 :
                 WritesDate(args.date_str, y, m, d, i))
               => ret.value = NoneVal

(***************************************************************************)
(* Properties of normalize_name                                            *)
(***************************************************************************)
NormalizeNameReturned == args.fn = "normalize_name" /\ ret # Pending

\* Each token delimited by spaces with its first character in upper case and
\* every other character in lower case.
CapitalizeTokens(s) ==
    [i \in 1..Len(s) |->
        IF i = 1 \/ s[i - 1] = " " THEN UpperChar(s[i]) ELSE LowerChar(s[i])]

\* C15: normalize_name collapses runs of whitespace, trims, and returns each
\* whitespace-delimited token with its first letter in upper case and every
\* other letter in lower case; a hyphen, an apostrophe or a digit inside a
\* token does not start a new capital.
C15_NameTokensCapitalized ==
    NormalizeNameReturned =>
        ret.value = CapitalizeTokens(CollapseSpaces(Strip(args.name)))

(***************************************************************************)
(* Properties of normalize_sex                                             *)
(***************************************************************************)
NormalizeSexReturned == args.fn = "normalize_sex" /\ ret # Pending

\* The input trimmed and in upper case.
TrimmedUpper(x) == Upper(Strip(x))

\* C16: after trimming and upper-casing, M, MALE and MAN give "M", F, FEMALE
\* and WOMAN give "F", any other non-empty text gives its first character, and
\* empty input gives the empty string; normalize_sex never raises.
C16_SexNormalization ==
    NormalizeSexReturned =>
        /\ ret.raised = ""
        /\ TrimmedUpper(args.sex) \in {<<"M">>, <<"M", "A", "L", "E">>, <<"M", "A", "N">>}
               => ret.value = <<"M">>
        /\ TrimmedUpper(args.sex) \in {<<"F">>, <<"F", "E", "M", "A", "L", "E">>, <<"W", "O", "M", "A", "N">>}
               => ret.value = <<"F">>
        /\ TrimmedUpper(args.sex) = <<>> => ret.value = <<>>
        /\ TrimmedUpper(args.sex) \notin {<<>>, <<"M">>, <<"M", "A", "L", "E">>, <<"M", "A", "N">>,
                                          <<"F">>, <<"F", "E", "M", "A", "L", "E">>, <<"W", "O", "M", "A", "N">>}
               => ret.value = <<TrimmedUpper(args.sex)[1]>>

\* "unknown" gave "U".
C16_Witness ==
    /\ NormalizeSexReturned
    /\ args.sex = <<"u", "n", "k", "n", "o", "w", "n">>
    /\ ret.value = <<"U">>

(***************************************************************************)
(* Properties of one iteration of _extract_text_from_detections            *)
(***************************************************************************)
ExtractFieldReturned == args.fn = "extract_field" /\ ret # Pending

\* The place of span i when the spans are listed by ascending top, spans of
\* equal top in the order they were returned.
TopRank(spans, i) ==
    1 + Cardinality({j \in 1..Len(spans) :
                         \/ spans[j].top < spans[i].top
                         \/ spans[j].top = spans[i].top /\ j < i})

TopOrder(spans) ==
    [k \in 1..Len(spans) |-> spans[CHOOSE i \in 1..Len(spans) : TopRank(spans, i) = k]]

\* The sum of the confidences of the spans at the given indices, taken in no
\* particular order.
RECURSIVE ConfidenceTotal(_, _)
ConfidenceTotal(spans, indices) ==
    IF indices = {} THEN 0
    ELSE LET i == CHOOSE j \in indices : TRUE
         IN  spans[i].confidence + ConfidenceTotal(spans, indices \ {i})

\* C19: when the recognizer returns spans for a region in any order, the raw
\* value is their texts joined by single spaces in ascending order of top
\* (spans of equal top in the returned order), and the recognition confidence
\* combined with the detection confidence is the arithmetic mean over all
\* spans, whatever their order: final_confidence^2 = detection * total / count.
C19_SpansJoinedTopDown ==
    (ExtractFieldReturned /\ args.ocr_results # <<>>) =>
        LET spans == args.ocr_results
            final == ret.value.final_confidence
        IN  /\ ret.value.field.value = JoinTexts(TopOrder(spans))
            /\ final.num * Len(spans)
                   = args.detection.confidence
                         * ConfidenceTotal(spans, DOMAIN spans) * final.den

\* Three spans returned bottom first, two of them on the same line, were
\* joined top down.
C19_Witness ==
    /\ ExtractFieldReturned
    /\ args.ocr_results = <<Span(20, <<"B", "C">>, 900), Span(10, <<"A">>, 200),
                            Span(20, <<"A">>, 200)>>
    /\ ret.value.field.value = <<"A", " ", "B", "C", " ", "A">>

(***************************************************************************)
(* One request over ID cards with all four validated fields                *)
(***************************************************************************)
MaxFields == 4

IdFieldNames == {"id_number", "issue_date", "expiry_date", "sex"}

\* The boxes of up to MaxFields different fields in any order; the box of
\* sex is found with low, threshold or high confidence.
IdBoxSeqs ==
    LET boxes == {Box(n, 900) : n \in IdFieldNames} \cup {Box("sex", c) : c \in {400, 500}}
    IN  {b \in UNION {[1..n -> boxes] : n \in 0..MaxFields} :
             \A i, j \in DOMAIN b : b[i].name = b[j].name => i = j}

\* What the recognizer may read in the region of each field.
IdSpanLists ==
    [name \in IdFieldNames |->
        CASE name = "id_number" ->
                 {<<Span(10, <<"7", "8", "4", "-", "1", "9", "9", "0", "-", "1", "2", "3", "4", "5", "6", "7", "-", "1">>, 900)>>,
                  <<Span(10, <<"1", "2", "3", "4", "5", "6", "7", "8", "9", "0", "1", "2", "3", "4", "5">>, 200)>>,
                  <<Span(10, <<"7", "8", "4", " ", "1", "9", "9", "O", "_", "l", "2", "3", "4", "5", "6", "7", " ", "1">>, 900)>>,
                  <<Span(10, <<"7", "8", "A">>, 900)>>,
                  <<Span(10, <<" ">>, 900)>>}
          [] name = "sex" ->
                 {<<Span(10, <<"M">>, 900)>>, <<Span(10, <<"X">>, 500)>>}
          [] name = "issue_date" ->
                 {<<Span(10, <<"0", "1", "/", "0", "2", "/", "2", "0", "3", "0">>, 900)>>,
                  <<Span(10, <<"s", "o", "o", "n">>, 900)>>}
          [] name = "expiry_date" ->
                 {<<Span(10, <<"0", "1", "/", "0", "2", "/", "2", "0", "2", "0">>, 900)>>,
                  <<Span(10, <<"0", "1", "/", "0", "2", "/", "2", "0", "4", "0">>, 900)>>,
                  <<Span(10, <<"s", "o", "o", "n">>, 900)>>}]

NextId ==
    \/ Scan(1, DocTypes)
    \/ ExtractMrz(1, ReaderOutcomes(MrzRecords))
    \/ DetectFields(1, {Raises("str(e) of the detector")}
                       \cup {Returns("boxes", NoMrz, b, <<>>) : b \in IdBoxSeqs})
    \/ ExtractText(1, RecognizerOutcomes(IdSpanLists))
    \/ Step(1)

SpecId == InitScan /\ [][NextId]_vars


(***************************************************************************)
(* Properties of the ID-card requests                                      *)
(***************************************************************************)
\* Request 1 was an ID-card scan and has its 200 response.
IdResult == req[1].doc = "emirates_id" /\ req[1].response.status_code = 200

\* dddd-dd-dd
IsIsoShape(s) ==
    /\ Len(s) = 10
    /\ \A i \in 1..10 : IF i \in {5, 8} THEN s[i] = "-" ELSE IsDigit(s[i])

\* The result holds the named date as YYYY-MM-DD: the field was detected,
\* text was read and the date normalizer parsed it.
ParsedDate(name) ==
    /\ HasField(req[1].response.fields, name)
    /\ IsIsoShape(FieldValue(req[1].response.fields, name))

\* C11: an ID-card result carries a date-validation warning only when both
\* issue_date and expiry_date were parsed to YYYY-MM-DD; a date that is
\* missing, empty or unparseable causes no date-validation warning.
C11_DateRuleOnlyOnParsedDates ==
    IdResult =>
        (Count(req[1].response.warnings, "Date validation") > 0
             => ParsedDate("issue_date") /\ ParsedDate("expiry_date"))


\* The warnings of the given kind that name the given field.
NamedWarnings(ws, kind, name) ==
    Cardinality({i \in 1..Len(ws) : ws[i].kind = kind /\ ws[i].detail = name})

\* The entry of the result for the i-th detection.
ResultField(i) ==
    req[1].response.fields[CHOOSE k \in 1..Len(req[1].response.fields) :
                               req[1].response.fields[k].name = req[1].detections[i].name]

\* detection confidence times the sum of the recognition confidences of the
\* i-th detection, in millionths: the square of the combined confidence (in
\* thousandths) times the number of spans.
SquaredTimesSpans(i) ==
    req[1].detections[i].confidence * ConfidenceTotal(req[1].ocr[i], DOMAIN req[1].ocr[i])

\* C17: in an ID-card result, for every detected field with recognized text,
\* a low-confidence warning naming the field is recorded if and only if
\* sqrt(detection * mean recognition) < 0.5, and in either case the field is
\* emitted with that combined confidence (to three decimals).
C17_LowConfidenceWarnsBelowHalf ==
    IdResult =>
        \A i \in 1..Len(req[1].detections) :
            req[1].ocr[i] # <<>> =>
                LET n == Len(req[1].ocr[i])
                    k == ResultField(i).confidence
                IN  /\ NamedWarnings(req[1].response.warnings, "Low confidence",
                                     req[1].detections[i].name)
                           = (IF SquaredTimesSpans(i) < 500 * 500 * n THEN 1 ELSE 0)
                    /\ (2 * k - 1) * (2 * k - 1) * n <= 4 * SquaredTimesSpans(i)
                    /\ 4 * SquaredTimesSpans(i) < (2 * k + 1) * (2 * k + 1) * n

\* A scan whose one field has detection 0.4 and recognition 0.5 returned it
\* with confidence 0.447 and exactly one low-confidence warning.
C17_Witness ==
    /\ IdResult
    /\ Len(req[1].detections) = 1
    /\ req[1].detections[1].confidence = 400
    /\ req[1].ocr[1] = <<Span(10, <<"X">>, 500)>>
    /\ ResultField(1).confidence = 447
    /\ Count(req[1].response.warnings, "Low confidence") = 1


\* The validation rule that reads the named field.
ValidationKind(name) ==
    CASE name = "id_number" -> "ID validation"
      [] name \in {"issue_date", "expiry_date"} -> "Date validation"
      [] name = "sex" -> "Sex validation"
      [] OTHER -> "none"

\* C18: in an ID-card result a detected field whose region gave no text is
\* emitted with the empty string as value and confidence exactly 0.0 (the
\* detection confidence is not combined in), is still empty after
\* normalization, and earns no ID, date or sex validation warning.
C18_NoTextFieldIsEmptyAndSkipped ==
    IdResult =>
        \A i \in 1..Len(req[1].detections) :
            req[1].ocr[i] = <<>> =>
                /\ HasField(req[1].response.fields, req[1].detections[i].name)
                /\ ResultField(i).value = <<>>
                /\ ResultField(i).confidence = 0
                /\ Count(req[1].response.warnings,
                         ValidationKind(req[1].detections[i].name)) = 0

\* A result with a confidently detected id_number whose region gave no text,
\* next to a sex field that did earn its validation warning.
C18_Witness ==
    /\ IdResult
    /\ \E i \in 1..Len(req[1].detections) :
           /\ req[1].detections[i].name = "id_number"
           /\ req[1].detections[i].confidence = 900
           /\ req[1].ocr[i] = <<>>
           /\ ResultField(i).value = <<>>
           /\ ResultField(i).confidence = 0
    /\ Count(req[1].response.warnings, "Sex validation") = 1
    /\ Count(req[1].response.warnings, "ID validation") = 0


\* Request 1 was a passport scan and has its 200 response.
PassportResult == req[1].doc = "passport" /\ req[1].response.status_code = 200

\* The place of a warning of an ID-card result: the extraction warnings,
\* then the ID-number, the date and the sex warning.
IdWarningPhase(w) ==
    CASE w.kind \in {"Low confidence", "No text detected in field"} -> 0
      [] w.kind = "ID validation" -> 1
      [] w.kind = "Date validation" -> 2
      [] w.kind = "Sex validation" -> 3
      [] OTHER -> 4

\* The place of a warning of a passport result: the passport-number
\* structure warning, then the check digits of number, date of birth and
\* expiration date.
PassportWarningPhase(w) ==
    CASE w.kind = "Passport number validation" -> 0
      [] w.kind = "Passport number check digit validation failed" -> 1
      [] w.kind = "Date of birth check digit validation failed" -> 2
      [] w.kind = "Expiration date check digit validation failed" -> 3
      [] OTHER -> 4

\* The place in the detection order of the field a warning names.
DetectionIndex(name) ==
    CHOOSE i \in 1..Len(req[1].detections) : req[1].detections[i].name = name

\* C20: in every ID-card result the warnings are the per-field extraction
\* warnings in the order the fields were detected, then at most one ID-number
\* warning, at most one date warning and at most one sex warning, in that
\* order; in every passport result the passport-number structure warning
\* precedes the check-digit warnings, which come in the order number, date of
\* birth, expiration date.
C20_WarningsInInsertionOrder ==
    LET ws == req[1].response.warnings
    IN  /\ IdResult =>
               /\ \A i, j \in 1..Len(ws) :
                      i < j =>
                          /\ IdWarningPhase(ws[i]) <= IdWarningPhase(ws[j])
                          /\ IdWarningPhase(ws[j]) = 0
                                 => DetectionIndex(ws[i].detail) < DetectionIndex(ws[j].detail)
               /\ \A i \in 1..Len(ws) : IdWarningPhase(ws[i]) < 4
               /\ \A kind \in {"ID validation", "Date validation", "Sex validation"} :
                      Count(ws, kind) <= 1
        /\ PassportResult =>
               \A i, j \in 1..Len(ws) :
                   i < j => /\ PassportWarningPhase(ws[i]) < PassportWarningPhase(ws[j])
                            /\ PassportWarningPhase(ws[j]) < 4

\* An ID-card result with two extraction warnings in detection order and the
\* three validation warnings, from fields detected in another order than
\* they are validated.
C20_Witness ==
    /\ IdResult
    /\ Len(req[1].response.warnings) = 5
    /\ req[1].detections[1].name = "sex"
    /\ req[1].detections[2].name = "expiry_date"
    /\ req[1].response.warnings[1].kind = "Low confidence"
    /\ req[1].response.warnings[1].detail = "sex"
    /\ req[1].response.warnings[2].kind = "Low confidence"
    /\ req[1].response.warnings[2].detail = "id_number"
    /\ Count(req[1].response.warnings, "ID validation") = 1
    /\ Count(req[1].response.warnings, "Date validation") = 1
    /\ Count(req[1].response.warnings, "Sex validation") = 1


(***************************************************************************)
(* Properties of _detect_fields                                            *)
(***************************************************************************)
DetectFieldsReturned == args.fn = "detect_fields" /\ ret # Pending

\* The index of the box of the given name with the highest confidence, the
\* earliest one on ties.
BestBox(boxes, name) ==
    CHOOSE i \in 1..Len(boxes) :
        /\ boxes[i].name = name
        /\ \A j \in 1..Len(boxes) :
               boxes[j].name = name =>
                   \/ boxes[j].confidence < boxes[i].confidence
                   \/ boxes[j].confidence = boxes[i].confidence /\ i <= j

\* C21: when the detector reports several boxes with the same field name,
\* whatever their order, exactly one detection is kept for that name: the box
\* of highest confidence, the earliest one on ties, with its own bounding box
\* and confidence; no name is kept twice and no other name appears.
C21_HighestConfidenceDetectionKept ==
    DetectFieldsReturned =>
        /\ \A i \in 1..Len(args.boxes) :
               /\ Cardinality({k \in 1..Len(ret.value) :
                                   ret.value[k].name = args.boxes[i].name}) = 1
               /\ \E k \in 1..Len(ret.value) :
                      ret.value[k] = args.boxes[BestBox(args.boxes, args.boxes[i].name)]
        /\ \A k \in 1..Len(ret.value) :
               \E i \in 1..Len(args.boxes) : args.boxes[i].name = ret.value[k].name

\* Three boxes of one field, the best confidence held by the second and the
\* third at different places: the second was kept, box and confidence.
C21_Witness ==
    /\ DetectFieldsReturned
    /\ args.boxes = <<Box("sex", 400),
                      [Box("sex", 900) EXCEPT !.bbox[1] = 50000],
                      Box("sex", 900)>>
    /\ ret.value = <<[Box("sex", 900) EXCEPT !.bbox[1] = 50000]>>


\* 784-dddd-ddddddd-d, d one of 0..9
MatchesIdFormat(v) ==
    /\ Len(v) = 18
    /\ SubSeq(v, 1, 3) = <<"7", "8", "4">>
    /\ \A i \in 1..18 :
           IF i \in {4, 9, 17} THEN v[i] = "-"
           ELSE v[i] \in {"0", "1", "2", "3", "4", "5", "6", "7", "8", "9"}

\* The ID-validation warnings that name the expected format and the value v.
FormatWarnings(ws, v) ==
    Cardinality({i \in 1..Len(ws) :
                     /\ ws[i].kind = "ID validation"
                     /\ ws[i].detail
                            = "Invalid Emirates ID format. Expected: 784-YYYY-NNNNNNN-C, got"
                     /\ ws[i].text = v})

\* The text read for the i-th detection, before normalization.
RawText(i) == JoinTexts(TopOrder(req[1].ocr[i]))

=============================================================================
